---- MODULE Spec2Model ----
(***************************************************************************)
(* A model of the DigiPIN codec (src/digipin.js): encodeDigipin,           *)
(* decodeDigipin, isValidDigipin, formatDigipin, isWithinBounds, and of    *)
(* the callers that compose them.                                          *)
(***************************************************************************)
EXTENDS Integers, Sequences, FiniteSets, TLC

(***************************************************************************)
(* NUMBERS.  A JavaScript number is an IEEE-754 binary64 value: a          *)
(* significand of 53 bits, every operation rounded to nearest, ties to     *)
(* even.  Every double in [2, 128), and every value the codec forms from   *)
(* such doubles by +, - and by multiplying or dividing by small powers of  *)
(* two, is an integer multiple of 2^-51.  A Number is that integer N (the  *)
(* value is N * 2^-51), held in two limbs <<hi, lo>> with                  *)
(* N = hi * Base + lo and 0 <= lo < Base, because N needs up to 59 bits.   *)
(* An arithmetic operator computes the exact result and rounds it to 53    *)
(* significant bits, as the hardware does.                                 *)
(***************************************************************************)
Base == 2^29

\* The bits of the binary64 significand.
Precision == 53

Norm(h, l) == <<h + (l \div Base), l % Base>>

Zero == <<0, 0>>

\* NaN, the Number that is no number, and NaN as the result of Math.floor,
\* Math.min and Math.max, which are integers otherwise.  A comparison with
\* NaN is false and arithmetic on NaN gives NaN.
NaN == <<>>

IsNaN(a) == a = NaN

NaNIndex == -(2^30)

NumAdd(a, b) == Norm(a[1] + b[1], a[2] + b[2])

NumSub(a, b) == Norm(a[1] - b[1], a[2] - b[2])

NumNeg(a) == Norm(-a[1], -a[2])

\* a < b, a <= b on Numbers (the comparison operators of JavaScript on finite doubles)
NumLt(a, b) ==
    /\ ~IsNaN(a) /\ ~IsNaN(b)
    /\ a[1] < b[1] \/ (a[1] = b[1] /\ a[2] < b[2])

NumLe(a, b) ==
    /\ ~IsNaN(a) /\ ~IsNaN(b)
    /\ a[1] < b[1] \/ (a[1] = b[1] /\ a[2] <= b[2])

IsNeg(a) == a[1] < 0

NumAbs(a) == IF IsNeg(a) THEN NumNeg(a) ELSE a

\* The number of bits of a natural number: BitLen(0) = 0, BitLen(5) = 3.
RECURSIVE BitLen(_)
BitLen(n) == IF n = 0 THEN 0 ELSE 1 + BitLen(n \div 2)

\* The number of bits of |N|.
NumBits(a) ==
    LET m == NumAbs(a)
    IN  IF m[1] = 0 THEN BitLen(m[2]) ELSE 29 + BitLen(m[1])

\* The exact value N rounded to a 53-bit significand, ties to even.
Round53(a) ==
    LET m == NumAbs(a)
        d == NumBits(a) - Precision
    IN  IF d <= 0 THEN a
        ELSE LET p    == 2^d
                 q    == m[2] \div p
                 r    == m[2] % p
                 half == p \div 2
                 up   == r > half \/ (r = half /\ q % 2 = 1)
                 res  == Norm(m[1], (q + IF up THEN 1 ELSE 0) * p)
             IN  IF IsNeg(a) THEN NumNeg(res) ELSE res

\* a + b and a - b of JavaScript.
FAdd(a, b) == IF IsNaN(a) \/ IsNaN(b) THEN NaN ELSE Round53(NumAdd(a, b))

FSub(a, b) == IF IsNaN(a) \/ IsNaN(b) THEN NaN ELSE Round53(NumSub(a, b))

\* k * a for an integer k (row * latDiv, col * lonDiv).
RECURSIVE MulInt(_, _)
MulInt(k, a) ==
    IF k = 0 THEN Zero
    ELSE IF k < 0 THEN NumNeg(MulInt(-k, a))
    ELSE NumAdd(a, MulInt(k - 1, a))

FMul(k, a) == IF k = NaNIndex \/ IsNaN(a) THEN NaN ELSE Round53(MulInt(k, a))

\* a / 2: dividing by a power of two is exact in binary64 (no underflow in
\* this range); the codec halves and quarters only multiples of 2^-18.
Halve(a) ==
    IF IsNaN(a) THEN NaN
    ELSE <<a[1] \div 2, (a[1] % 2) * (Base \div 2) + a[2] \div 2>>

\* a / 4
Quarter(a) == Halve(Halve(a))

\* floor(N / 2^k) for N >= 0.
ShiftRight(a, k) ==
    IF k >= 58 THEN Zero
    ELSE IF k >= 29 THEN <<0, a[1] \div 2^(k - 29)>>
    ELSE <<a[1] \div 2^k, (a[1] % 2^k) * (Base \div 2^k) + a[2] \div 2^k>>

\* Exact division of x >= 0 by d > 0: the integer quotient q and the remainder r.
RECURSIVE DivMod(_, _)
DivMod(x, d) ==
    IF NumLt(x, d) THEN [q |-> 0, r |-> x]
    ELSE LET h == DivMod(x, NumAdd(d, d))
         IN  IF NumLt(h.r, d) THEN [q |-> 2 * h.q, r |-> h.r]
             ELSE [q |-> 2 * h.q + 1, r |-> NumSub(h.r, d)]

\* The double x / d for x >= 0, d > 0, as far as Math.floor needs it: int is
\* the integer part of the ROUNDED quotient and exact says whether the
\* rounded quotient is that integer.  With q + r/d the exact quotient, the
\* doubles next to it are spaced ulp = 2^(BitLen(q) - 53) apart (2^-53 or
\* less below 1), so the quotient rounds up to q + 1 when (d - r)/d is at most
\* half an ulp, and down to q when r/d is (a tie goes to the integer, whose
\* significand is even).
RoundedQuot(x, d) ==
    LET dm      == DivMod(x, d)
        halfUlp == ShiftRight(d, Precision + 1 - BitLen(dm.q))
    IN  IF dm.r # Zero /\ NumLe(NumSub(d, dm.r), halfUlp)
            THEN [int |-> dm.q + 1, exact |-> TRUE]
        ELSE IF dm.r = Zero \/ (dm.q > 0 /\ NumLe(dm.r, halfUlp))
            THEN [int |-> dm.q, exact |-> TRUE]
        ELSE [int |-> dm.q, exact |-> FALSE]

\* Math.floor(x / d) for d > 0.
FloorQuot(x, d) ==
    IF IsNaN(x) \/ IsNaN(d) THEN NaNIndex
    ELSE IF ~IsNeg(x) THEN RoundedQuot(x, d).int
    ELSE LET r == RoundedQuot(NumNeg(x), d)
         IN  IF r.exact THEN -r.int ELSE -r.int - 1

\* The double k * 2^-s for a small integer k (2.5 is Dyadic(5, 1)).
Dyadic(k, s) == Norm(k * 2^(22 - s), 0)

\* The distance from x to the next double above it (x > 0).
Ulp(a) ==
    LET b == NumBits(a) - Precision
    IN  IF b <= 0 THEN <<0, 1>> ELSE <<0, 2^b>>


(***************************************************************************)
(* STRINGS.  A string is the sequence of its characters (UTF-16 code       *)
(* units), each a one-character string.  "sz" stands for the single        *)
(* character U+00DF, whose upper case is the two characters "SS".          *)
(***************************************************************************)
LowerCase == [c |-> "C", f |-> "F", j |-> "J", k |-> "K", l |-> "L", m |-> "M",
              p |-> "P", t |-> "T", a |-> "A", sz |-> "SS"]

\* String.prototype.toUpperCase on one character: the characters it becomes.
UpperChar(ch) ==
    IF ch = "sz" THEN <<"S", "S">>
    ELSE IF ch \in DOMAIN LowerCase THEN <<LowerCase[ch]>>
    ELSE <<ch>>

RECURSIVE ToUpperCase(_)
ToUpperCase(s) ==
    IF s = <<>> THEN <<>> ELSE UpperChar(Head(s)) \o ToUpperCase(Tail(s))

\* s.replace(/-/g, '')
RemoveHyphens(s) == SelectSeq(s, LAMBDA ch : ch # "-")

\* s.slice(a, b) for 0 <= a <= b
Slice(s, a, b) ==
    LET n == IF b < Len(s) THEN b ELSE Len(s)
    IN  IF a + 1 > n THEN <<>> ELSE SubSeq(s, a + 1, n)

\* The values a codec function returns: null, a string, a boolean, a decoded
\* cell, or the TypeError it raises.
Null == [kind |-> "null"]

Str(s) == [kind |-> "string", s |-> s]

Bool(b) == [kind |-> "boolean", b |-> b]

TypeError == [kind |-> "TypeError"]

(***************************************************************************)
(* THE CODEC                                                               *)
(***************************************************************************)
MIN_LAT == Dyadic(5, 1)

MAX_LAT == Dyadic(77, 1)

MIN_LON == Dyadic(127, 1)

MAX_LON == Dyadic(199, 1)

\* A variant of DIGIPIN_GRID with 8 typed for 9 in its first row; C13 tells
\* it from DIGIPIN_GRID.
GridWithRepeat ==
    << <<"F", "C", "8", "8">>,
       <<"J", "3", "2", "7">>,
       <<"K", "4", "5", "6">>,
       <<"L", "M", "P", "T">> >>

DIGIPIN_GRID ==
    << <<"F", "C", "9", "8">>,
       <<"J", "3", "2", "7">>,
       <<"K", "4", "5", "6">>,
       <<"L", "M", "P", "T">> >>

\* The keys the construction loop writes into CHAR_TO_POS.
GridChars == {DIGIPIN_GRID[r + 1][c + 1] : r \in 0..3, c \in 0..3}

\* A variant of CHAR_TO_POS whose entries all have row 0; C18 tells it from
\* CHAR_TO_POS.
PosWithoutRow ==
    [ch \in GridChars |->
        <<0, CHOOSE c \in 0..3 : \E r \in 0..3 : DIGIPIN_GRID[r + 1][c + 1] = ch>>]

\* CHAR_TO_POS[ch] after the loop: the last (row, col) written under key ch.
CHAR_TO_POS ==
    [ch \in GridChars |->
        LET at   == {rc \in (0..3) \X (0..3) : DIGIPIN_GRID[rc[1] + 1][rc[2] + 1] = ch}
            last == CHOOSE rc \in at : \A o \in at : 4 * o[1] + o[2] <= 4 * rc[1] + rc[2]
        IN  last]

\* !CHAR_TO_POS[char] is false: char is a key of the table.
HasPos(ch) == ch \in DOMAIN CHAR_TO_POS

\* The iterations of both loops.
Levels == 10

\* A variant of OutOfRange with <= and >= for < and >, which rejects the
\* edges of the region; C3 tells it from OutOfRange.
OutOfRangeOrOnEdge(lat, lon) ==
    \/ NumLe(lat, MIN_LAT)
    \/ NumLe(MAX_LAT, lat)
    \/ NumLe(lon, MIN_LON)
    \/ NumLe(MAX_LON, lon)

\* lat < MIN_LAT || lat > MAX_LAT || lon < MIN_LON || lon > MAX_LON
OutOfRange(lat, lon) ==
    \/ NumLt(lat, MIN_LAT)
    \/ NumLt(MAX_LAT, lat)
    \/ NumLt(lon, MIN_LON)
    \/ NumLt(MAX_LON, lon)

\* A variant of Clamp that leaves x as it is; C7 tells it from Clamp.
Unclamped(x) == x

\* Math.min(3, Math.max(0, x))
Clamp(x) ==
    LET lo == IF x > 0 THEN x ELSE 0
    IN  IF x = NaNIndex THEN NaNIndex ELSE IF lo < 3 THEN lo ELSE 3

\* A variant of RowOf with Math.ceil for Math.floor; C2 tells it from RowOf.
RowOfCeil(maxLat, lat, latDiv) == -FloorQuot(FSub(lat, maxLat), latDiv)

\* Math.floor((maxLat - lat) / latDiv)
RowOf(maxLat, lat, latDiv) == FloorQuot(FSub(maxLat, lat), latDiv)

\* Math.floor((lon - minLon) / lonDiv)
ColOf(minLon, lon, lonDiv) == FloorQuot(FSub(lon, minLon), lonDiv)

\* A variant of GridAt that reads DIGIPIN_GRID[col][row]; C19 tells it from
\* GridAt.
GridAtTransposed(row, col) ==
    IF col \notin 0..3 THEN TypeError
    ELSE IF row \notin 0..3 THEN Str(<<"u", "n", "d", "e", "f", "i", "n", "e", "d">>)
    ELSE Str(<<DIGIPIN_GRID[col + 1][row + 1]>>)

\* What digipin += DIGIPIN_GRID[row][col] appends: a missing row raises, a
\* missing column yields undefined, which += writes out.
GridAt(row, col) ==
    IF row \notin 0..3 THEN TypeError
    ELSE IF col \notin 0..3 THEN Str(<<"u", "n", "d", "e", "f", "i", "n", "e", "d">>)
    ELSE Str(<<DIGIPIN_GRID[row + 1][col + 1]>>)

\* The variables of encodeDigipin before its loop; rows and cols record the
\* row and col each iteration used.
EncodeStart ==
    [minLat |-> MIN_LAT, maxLat |-> MAX_LAT, minLon |-> MIN_LON, maxLon |-> MAX_LON,
     digipin |-> <<>>, rows |-> <<>>, cols |-> <<>>, thrown |-> FALSE]

\* One iteration of the loop of encodeDigipin.
EncodeIter(s, lat, lon) ==
    LET latDiv == Quarter(FSub(s.maxLat, s.minLat))
        lonDiv == Quarter(FSub(s.maxLon, s.minLon))
        row    == Clamp(RowOf(s.maxLat, lat, latDiv))
        col    == Clamp(ColOf(s.minLon, lon, lonDiv))
        sym    == GridAt(row, col)
        maxLat == FSub(s.maxLat, FMul(row, latDiv))
        minLon == FAdd(s.minLon, FMul(col, lonDiv))
    IN  IF sym = TypeError
            THEN [s EXCEPT !.rows = Append(@, row), !.cols = Append(@, col),
                           !.thrown = TRUE]
        ELSE [minLat |-> FSub(maxLat, latDiv), maxLat |-> maxLat,
              minLon |-> minLon, maxLon |-> FAdd(minLon, lonDiv),
              digipin |-> s.digipin \o sym.s,
              rows |-> Append(s.rows, row), cols |-> Append(s.cols, col),
              thrown |-> FALSE]

\* The loop of encodeDigipin from iteration level up to (not including) upto.
RECURSIVE EncodeLoop(_, _, _, _, _)
EncodeLoop(level, upto, s, lat, lon) ==
    IF level >= upto \/ s.thrown THEN s
    ELSE EncodeLoop(level + 1, upto, EncodeIter(s, lat, lon), lat, lon)

\* A variant of Hyphenate whose last group ends at 9; C6 tells it from
\* Hyphenate.
HyphenateNine(s) == Slice(s, 0, 3) \o <<"-">> \o Slice(s, 3, 6) \o <<"-">> \o Slice(s, 6, 9)

\* `${s.slice(0, 3)}-${s.slice(3, 6)}-${s.slice(6, 10)}`
Hyphenate(s) == Slice(s, 0, 3) \o <<"-">> \o Slice(s, 3, 6) \o <<"-">> \o Slice(s, 6, 10)

encodeDigipin(lat, lon) ==
    IF OutOfRange(lat, lon) THEN Null
    ELSE LET s == EncodeLoop(0, Levels, EncodeStart, lat, lon)
         IN  IF s.thrown THEN TypeError ELSE Str(Hyphenate(s.digipin))

\* A variant of Normalize without toUpperCase; C4 tells it from Normalize.
NormalizeKeepingCase(s) == RemoveHyphens(s)

\* A variant of Normalize that keeps the hyphens; C12 tells it from Normalize.
NormalizeKeepingHyphens(s) == ToUpperCase(s)

\* digipin.replace(/-/g, '').toUpperCase()
Normalize(s) == ToUpperCase(RemoveHyphens(s))

\* The length and character checks shared by decodeDigipin and isValidDigipin.
WellFormed(pin) == Len(pin) = 10 /\ \A i \in 1..Len(pin) : HasPos(pin[i])

\* The variables of decodeDigipin before its loop.
DecodeStart ==
    [level |-> 0,
     minLat |-> MIN_LAT, maxLat |-> MAX_LAT, minLon |-> MIN_LON, maxLon |-> MAX_LON]

\* A variant of DecodeIter that counts the rows from the south; C16 tells
\* it from DecodeIter.
DecodeIterFromSouth(s, pin) ==
    LET char      == pin[s.level + 1]
        row       == CHAR_TO_POS[char][1]
        col       == CHAR_TO_POS[char][2]
        latDiv    == Quarter(FSub(s.maxLat, s.minLat))
        lonDiv    == Quarter(FSub(s.maxLon, s.minLon))
        newMinLat == FAdd(s.minLat, FMul(row, latDiv))
        newMaxLat == FAdd(newMinLat, latDiv)
        newMinLon == FAdd(s.minLon, FMul(col, lonDiv))
        newMaxLon == FAdd(newMinLon, lonDiv)
    IN  [level |-> s.level + 1,
         minLat |-> newMinLat, maxLat |-> newMaxLat,
         minLon |-> newMinLon, maxLon |-> newMaxLon]

\* One iteration of the loop of decodeDigipin, on pin[level].
DecodeIter(s, pin) ==
    LET char      == pin[s.level + 1]
        row       == CHAR_TO_POS[char][1]
        col       == CHAR_TO_POS[char][2]
        latDiv    == Quarter(FSub(s.maxLat, s.minLat))
        lonDiv    == Quarter(FSub(s.maxLon, s.minLon))
        newMaxLat == FSub(s.maxLat, FMul(row, latDiv))
        newMinLat == FSub(newMaxLat, latDiv)
        newMinLon == FAdd(s.minLon, FMul(col, lonDiv))
        newMaxLon == FAdd(newMinLon, lonDiv)
    IN  [level |-> s.level + 1,
         minLat |-> newMinLat, maxLat |-> newMaxLat,
         minLon |-> newMinLon, maxLon |-> newMaxLon]

\* The loop of decodeDigipin up to (not including) iteration upto.
RECURSIVE DecodeLoop(_, _, _)
DecodeLoop(upto, s, pin) ==
    IF s.level >= upto THEN s ELSE DecodeLoop(upto, DecodeIter(s, pin), pin)

\* { minLat, maxLat, minLon, maxLon }
Bounds(s) ==
    [minLat |-> s.minLat, maxLat |-> s.maxLat, minLon |-> s.minLon, maxLon |-> s.maxLon]

\* A variant of decodeDigipin whose loop stops one level early; C9 tells it
\* from decodeDigipin.
decodeNineLevels(digipin) ==
    LET pin == Normalize(digipin)
    IN  IF ~WellFormed(pin) THEN Null
        ELSE LET s == DecodeLoop(Levels - 1, DecodeStart, pin)
             IN  [kind |-> "cell",
                  lat |-> Halve(FAdd(s.minLat, s.maxLat)),
                  lon |-> Halve(FAdd(s.minLon, s.maxLon)),
                  bounds |-> Bounds(s)]

decodeDigipin(digipin) ==
    LET pin == Normalize(digipin)
    IN  IF ~WellFormed(pin) THEN Null
        ELSE LET s == DecodeLoop(Levels, DecodeStart, pin)
             IN  [kind |-> "cell",
                  lat |-> Halve(FAdd(s.minLat, s.maxLat)),
                  lon |-> Halve(FAdd(s.minLon, s.maxLon)),
                  bounds |-> Bounds(s)]

\* A variant of isValidDigipin without the loop over the characters; C5
\* tells it from isValidDigipin.
isValidLength(digipin) == Len(Normalize(digipin)) = 10

isValidDigipin(digipin) == WellFormed(Normalize(digipin))

\* A variant of formatDigipin that neither strips the hyphens nor tests the
\* length; C10 tells it from formatDigipin.
formatUnstripped(pin) == Hyphenate(ToUpperCase(pin))

\* A variant of formatDigipin that leaves a string alone unless its
\* normalized form is a valid code; C11 tells it from formatDigipin.
formatValidOnly(pin) ==
    LET clean == Normalize(pin)
    IN  IF ~WellFormed(clean) THEN pin ELSE Hyphenate(clean)

formatDigipin(pin) ==
    LET clean == Normalize(pin)
    IN  IF Len(clean) # 10 THEN pin ELSE Hyphenate(clean)

isWithinBounds(lat, lon) ==
    /\ NumLe(MIN_LAT, lat)
    /\ NumLe(lat, MAX_LAT)
    /\ NumLe(MIN_LON, lon)
    /\ NumLe(lon, MAX_LON)

(***************************************************************************)
(* INPUTS.  The coordinates and strings the codec is called with.          *)
(***************************************************************************)
\* How many doubles above and below a sampled point are sampled with it.
MaxUlps == 1

\* How many codec calls are composed, each on the result of the one before.
MaxCalls == 2

\* The full-depth cells along one axis: 4^Levels.
CellsPerAxis == 4^Levels

\* The latitude h half-cells north of MIN_LAT and the longitude h half-cells
\* east of MIN_LON: even h are subdivision lines, odd h are cell centres.
\* A full-depth cell is 36 / 4^10 = 9 * 2^-18 degrees wide.
LatAt(h) == NumAdd(MIN_LAT, Dyadic(9 * h, 19))

LonAt(h) == NumAdd(MIN_LON, Dyadic(9 * h, 19))

\* The doubles j places above (below, for j < 0) the double x.
Nearby(x) == {NumAdd(x, MulInt(j, Ulp(x))) : j \in -MaxUlps..MaxUlps}

\* Half-cell positions sampled on each axis: both edges of the region, the
\* three level-1 lines, level-10 lines next to an edge, cell centres, and
\* positions outside the region.
HalfSteps ==
    {0, 1, 2, 2 * CellsPerAxis - 1, 2 * CellsPerAxis,
     CellsPerAxis \div 2 - 1, CellsPerAxis \div 2, CellsPerAxis \div 2 + 1,
     CellsPerAxis, 3 * (CellsPerAxis \div 2), 3 * (CellsPerAxis \div 2) + 2049,
     -2, 2 * CellsPerAxis + 2}

LatSamples == UNION {Nearby(LatAt(h)) : h \in HalfSteps} \cup {Zero}

LonSamples ==
    UNION {Nearby(LonAt(h)) : h \in {0, 1, 2 * CellsPerAxis, CellsPerAxis \div 2,
                                      CellsPerAxis + 1, -2, 2 * CellsPerAxis + 2}}
    \cup {Zero}

Coord(lat, lon) == [kind |-> "coord", lat |-> lat, lon |-> lon]

Coords == {Coord(lat, lon) : lat \in LatSamples, lon \in LonSamples}

\* k copies of symbol a followed by 10 - k copies of symbol b.
CodeOf(a, b, k) == [i \in 1..10 |-> IF i <= k THEN a ELSE b]

\* const DEFAULT_DIGIPIN = '4P3-JM8-K4L6'
DEFAULT_DIGIPIN == <<"4", "P", "3", "-", "J", "M", "8", "-", "K", "4", "L", "6">>

\* Codes of ten symbols: the four corner cells, cells in the corners of
\* coarser cells, and the default code.
SampleCodes ==
    {CodeOf(a, b, k) : a \in GridChars, b \in {"F", "8", "L", "T"}, k \in {0, 1, 9}}
    \cup {RemoveHyphens(DEFAULT_DIGIPIN)}

\* The lower-case spelling of a string.
ToLower(s) ==
    [i \in 1..Len(s) |->
        IF \E lc \in DOMAIN LowerCase : LowerCase[lc] = s[i]
        THEN CHOOSE lc \in DOMAIN LowerCase : LowerCase[lc] = s[i]
        ELSE s[i]]

\* s with its character at position i replaced by ch.
Replaced(s, i, ch) == [s EXCEPT ![i] = ch]

\* Spellings of one code: bare, hyphenated 3-3-4, lower case, hyphens in
\* other places; and strings that are not codes: too short, too long, with
\* a character outside the alphabet.
Spellings(c) ==
    {c, Hyphenate(c), ToLower(c), ToLower(Hyphenate(c)),
     <<"-">> \o c, c \o <<"-", "-">>, Slice(c, 0, 5) \o <<"-">> \o Slice(c, 5, 10),
     Slice(c, 0, 9), Hyphenate(Slice(c, 0, 9)), c \o <<"2">>, Hyphenate(c) \o <<"T">>,
     Replaced(c, 1, "A"), Replaced(c, 10, "a"), Replaced(c, 5, "0"),
     Replaced(c, 7, "1"), Replaced(c, 3, " "), Replaced(Hyphenate(c), 2, "S"),
     <<"sz">> \o Slice(c, 0, 8), <<"sz">> \o Slice(c, 0, 9)}

Strings ==
    {Str(s) : s \in UNION {Spellings(c) : c \in SampleCodes}}
    \cup {Str(<<>>), Str(<<"-">>), Str(<<"2">>)}

Inputs == Coords \cup Strings

(***************************************************************************)
(* THE CALLS.  The codec keeps no state between calls; a caller holds a    *)
(* value (a coordinate or a string at first) and applies a codec function  *)
(* to it, then possibly another to the result, as setLocation,             *)
(* drawGridCell, handleSearch and showDefaultLocation do.                  *)
(***************************************************************************)
VARIABLES
    input,  \* the value the caller starts from
    calls,  \* the functions called so far, in order
    arg,    \* the argument of the last call
    val,    \* the value in hand: the input, then the result of the last call
    loop,   \* the variables of encodeDigipin when its loop ended (last encode)
    site,   \* a code and the position of its cell
    cell,   \* the decoded cell of the site's code
    at,     \* for p and for q: the coordinate, its code and the code's cell
    point,  \* a coordinate whose encoding and decoding are followed step by step
    within, \* the result of isWithinBounds for the point
    enc,    \* encodeDigipin(point): where it is, its variables, its result
    dec,    \* decodeDigipin of the code returned: where it is, its variables, its result
    pins,   \* for s and for t: a string and the result of decodeDigipin for it
    currentLocation, \* let currentLocation = { lat, lon, digipin }
    marker,          \* let marker: null or the marker and where it stands
    gridRect,        \* let gridRect: null or the rectangle drawn on the map
    url,             \* the query parameters of window.location
    pending,         \* timers set and requests sent whose callbacks have not run
    running          \* the handler under way: where it is, its variables;
                     \* once returned, the call of setLocation it made

pairVars == <<site, cell, at>>

loopVars == <<point, within, enc, dec>>

codeVars == <<pins>>

appVars == <<currentLocation, marker, gridRect, url, pending, running>>

vars ==
    <<input, calls, arg, val, loop, site, cell, at, point, within, enc, dec, pins,
      currentLocation, marker, gridRect, url, pending, running>>

Init ==
    /\ input \in Inputs
    /\ calls = <<>>
    /\ arg = Null
    /\ val = input
    /\ loop = Null
    /\ site = Null /\ cell = Null /\ at = Null
    /\ point = Null /\ within = Null /\ enc = Null /\ dec = Null
    /\ pins = Null
    /\ currentLocation = Null /\ marker = Null /\ gridRect = Null
    /\ url = Null /\ pending = Null /\ running = Null

IsCoordinate(v) == v.kind \in {"coord", "cell"}

\* encodeDigipin(lat, lon) on the coordinate in hand (a cell's centre when
\* the value is a decoded cell: setLocation(decoded.lat, decoded.lon)).
Encode ==
    /\ Len(calls) < MaxCalls
    /\ IsCoordinate(val)
    /\ calls' = Append(calls, "encodeDigipin")
    /\ arg' = val
    /\ val' = encodeDigipin(val.lat, val.lon)
    /\ loop' = IF OutOfRange(val.lat, val.lon) THEN Null
               ELSE EncodeLoop(0, Levels, EncodeStart, val.lat, val.lon)
    /\ UNCHANGED <<appVars, codeVars, input, pairVars, loopVars>>

WithinBounds ==
    /\ Len(calls) < MaxCalls
    /\ IsCoordinate(val)
    /\ calls' = Append(calls, "isWithinBounds")
    /\ arg' = val
    /\ val' = Bool(isWithinBounds(val.lat, val.lon))
    /\ UNCHANGED <<appVars, codeVars, input, loop, pairVars, loopVars>>

Decode ==
    /\ Len(calls) < MaxCalls
    /\ val.kind = "string"
    /\ calls' = Append(calls, "decodeDigipin")
    /\ arg' = val
    /\ val' = decodeDigipin(val.s)
    /\ UNCHANGED <<appVars, codeVars, input, loop, pairVars, loopVars>>

IsValid ==
    /\ Len(calls) < MaxCalls
    /\ val.kind = "string"
    /\ calls' = Append(calls, "isValidDigipin")
    /\ arg' = val
    /\ val' = Bool(isValidDigipin(val.s))
    /\ UNCHANGED <<appVars, codeVars, input, loop, pairVars, loopVars>>

Format ==
    /\ Len(calls) < MaxCalls
    /\ val.kind = "string"
    /\ calls' = Append(calls, "formatDigipin")
    /\ arg' = val
    /\ val' = Str(formatDigipin(val.s))
    /\ UNCHANGED <<appVars, codeVars, input, loop, pairVars, loopVars>>

Next == Encode \/ WithinBounds \/ Decode \/ IsValid \/ Format

Spec == Init /\ [][Next]_vars

(***************************************************************************)
(* TWO COORDINATES AROUND ONE CELL.  A code is decoded to its cell; two    *)
(* coordinates p and q taken in and around that cell are each encoded,     *)
(* and the code of each is decoded, as drawGridCell does with              *)
(* decodeDigipin(encodeDigipin(lat, lon)).                                 *)
(***************************************************************************)
\* The cells p and q are taken around, each with the half-cell position of
\* its centre: the cell north of the 11.5 line and east of the 81.5 line
\* (a corner of a level-1 cell), the cell of the default code, and the
\* north-east corner cell of the region.
Sites ==
    {[code |-> CodeOf("5", "L", 1),
      hLat |-> CellsPerAxis \div 2 + 1, hLon |-> CellsPerAxis + 1],
     [code |-> RemoveHyphens(DEFAULT_DIGIPIN),
      hLat |-> 607907, hLon |-> 822823],
     [code |-> CodeOf("8", "8", 0),
      hLat |-> 2 * CellsPerAxis - 1, hLon |-> 2 * CellsPerAxis - 1]}

\* Coordinates for p around the cell centred at half-cells (hLat, hLon).
\* Latitudes: the centre, both edges with the doubles next to them, and the
\* far edges of the neighbours.  Longitudes: the centre and the west edge
\* with the doubles next to it.
CoordsOfP(hLat, hLon) ==
    {Coord(lat, lon) :
        lat \in UNION {Nearby(LatAt(hLat + d)) : d \in {-1, 1}}
                \cup {LatAt(hLat + d) : d \in {-3, 0, 3}},
        lon \in Nearby(LonAt(hLon - 1)) \cup {LonAt(hLon)}}

\* Coordinates for q: the centres of the cell, of its four neighbours and
\* of the cell four cells to the north.
CoordsOfQ(hLat, hLon) ==
    {Coord(LatAt(hLat + d[1]), LonAt(hLon + d[2])) :
        d \in {<<0, 0>>, <<2, 0>>, <<-2, 0>>, <<0, 2>>, <<0, -2>>, <<8, 0>>}}

CoordsOf(k, hLat, hLon) ==
    IF k = "p" THEN CoordsOfP(hLat, hLon) ELSE CoordsOfQ(hLat, hLon)

PairInit ==
    /\ site \in Sites
    /\ calls = <<>>
    /\ cell = Null
    /\ at = [p |-> Null, q |-> Null]
    /\ input = Null /\ arg = Null /\ val = Null /\ loop = Null
    /\ point = Null /\ within = Null /\ enc = Null /\ dec = Null
    /\ pins = Null
    /\ currentLocation = Null /\ marker = Null /\ gridRect = Null
    /\ url = Null /\ pending = Null /\ running = Null

\* decodeDigipin(code) for the site's code.
DecodeSite ==
    /\ site # Null
    /\ calls = <<>>
    /\ calls' = <<"decodeDigipin">>
    /\ cell' = decodeDigipin(site.code)
    /\ UNCHANGED <<appVars, codeVars, input, arg, val, loop, site, at, loopVars>>

\* The coordinate k has its code, and the code its cell when it is a code.
Settled(k) ==
    /\ at[k] # Null
    /\ at[k].digipin.kind = "string" => at[k].decoded # Null

\* encodeDigipin(lat, lon) for p, and for q once p is settled.
EncodeAt ==
    /\ cell # Null
    /\ \E k \in {"p", "q"} :
        /\ at[k] = Null
        /\ k = "q" => Settled("p")
        /\ \E c \in CoordsOf(k, site.hLat, site.hLon) :
              at' = [at EXCEPT ![k] = [lat |-> c.lat, lon |-> c.lon,
                                       digipin |-> encodeDigipin(c.lat, c.lon),
                                       decoded |-> Null]]
    /\ calls' = Append(calls, "encodeDigipin")
    /\ UNCHANGED <<appVars, codeVars, input, arg, val, loop, site, cell, loopVars>>

\* decodeDigipin(digipin) for the code of p or of q.
DecodeAt ==
    /\ \E k \in {"p", "q"} :
        /\ at[k] # Null
        /\ ~Settled(k)
        /\ at' = [at EXCEPT ![k].decoded = decodeDigipin(at[k].digipin.s)]
    /\ calls' = Append(calls, "decodeDigipin")
    /\ UNCHANGED <<appVars, codeVars, input, arg, val, loop, site, cell, loopVars>>

PairNext == DecodeSite \/ EncodeAt \/ DecodeAt

SpecPair == PairInit /\ [][PairNext]_vars

(***************************************************************************)
(* THE CLAIMS about single calls and calls composed                        *)
(***************************************************************************)
\* The 16 symbols of the alphabet.
Alphabet == {"2", "3", "4", "5", "6", "7", "8", "9",
             "C", "F", "J", "K", "L", "M", "P", "T"}

\* 2.5 <= lat <= 38.5 and 63.5 <= lon <= 99.5
InRegion(c) ==
    /\ NumLe(Dyadic(5, 1), c.lat) /\ NumLe(c.lat, Dyadic(77, 1))
    /\ NumLe(Dyadic(127, 1), c.lon) /\ NumLe(c.lon, Dyadic(199, 1))

\* minLat <= lat <= maxLat and minLon <= lon <= maxLon
Contains(b, lat, lon) ==
    /\ NumLe(b.minLat, lat) /\ NumLe(lat, b.maxLat)
    /\ NumLe(b.minLon, lon) /\ NumLe(lon, b.maxLon)

\* The normalized form of s is not ten symbols of the alphabet.
Malformed(s) ==
    LET n == ToUpperCase(RemoveHyphens(s))
    IN  Len(n) # 10 \/ \E i \in 1..Len(n) : n[i] \notin Alphabet

\* C1 (as claimed): round-trip containment. For every coordinate in the
\* region, decodeDigipin(encodeDigipin(lat, lon)) is not null and its bounds
\* contain (lat, lon).
C1_RoundTripContainment ==
    (calls = <<"encodeDigipin", "decodeDigipin">> /\ input.kind = "coord" /\ InRegion(input))
        => (val.kind = "cell" /\ Contains(val.bounds, input.lat, input.lon))

\* C2: centre re-encoding. For every valid code c, in any spelling, encoding
\* the centre decodeDigipin(c) returns gives formatDigipin(c).
C2_CentreReencoding ==
    (calls = <<"decodeDigipin", "encodeDigipin">> /\ arg.kind = "cell")
        => val = Str(formatDigipin(input.s))

C2_Witness ==
    /\ calls = <<"decodeDigipin", "encodeDigipin">>
    /\ input = Str(DEFAULT_DIGIPIN)
    /\ val = Str(DEFAULT_DIGIPIN)

\* C3: out-of-range rejection. encodeDigipin returns null for every
\* coordinate outside the region and a code for every coordinate inside
\* it, its edges and corners included.
C3_OutOfRangeRejection ==
    (calls = <<"encodeDigipin">> /\ input.kind = "coord")
        => IF InRegion(input) THEN val.kind = "string" ELSE val = Null

C3_Witness ==
    /\ calls = <<"encodeDigipin">>
    /\ input = Coord(MIN_LAT, MAX_LON)
    /\ val.kind = "string"

\* C4: decodeDigipin returns null exactly when the normalized string does
\* not have length 10 or holds a character outside the alphabet; otherwise
\* it returns a cell with lat, lon and bounds; it never raises.
C4_DecodeNullExactly ==
    (calls = <<"decodeDigipin">>)
        => /\ val.kind # "TypeError"
           /\ IF Malformed(input.s) THEN val = Null
              ELSE val.kind = "cell" /\ DOMAIN val = {"kind", "lat", "lon", "bounds"}

C4_Witness ==
    /\ calls = <<"decodeDigipin">>
    /\ Len(ToUpperCase(RemoveHyphens(input.s))) = 10
    /\ val = Null

\* C5: isValidDigipin returns true exactly for the strings whose normalized
\* form is ten symbols of the alphabet, and false for every other string.
C5_IsValidExactly ==
    (calls = <<"isValidDigipin">>) => val = Bool(~Malformed(input.s))

C5_Witness ==
    /\ calls = <<"isValidDigipin">>
    /\ input.s # ToUpperCase(RemoveHyphens(input.s))
    /\ val = Bool(TRUE)

\* C6: alphabet closure of encode. For every coordinate in the region the
\* code has the shape XXX-XXX-XXXX over the alphabet, isValidDigipin accepts
\* it and formatDigipin returns it unchanged.
C6_AlphabetClosure ==
    /\ (calls = <<"encodeDigipin">> /\ input.kind = "coord" /\ InRegion(input))
          => /\ val.kind = "string"
             /\ Len(val.s) = 12
             /\ \A i \in 1..Len(val.s) :
                   IF i \in {4, 8} THEN val.s[i] = "-" ELSE val.s[i] \in Alphabet
    /\ (calls = <<"encodeDigipin", "isValidDigipin">>) => val = Bool(TRUE)
    /\ (calls = <<"encodeDigipin", "formatDigipin">>) => val = arg

C6_Witness ==
    /\ calls = <<"encodeDigipin", "formatDigipin">>
    /\ val = arg
    /\ Len(val.s) = 12

\* C7: boundary clamping. For every coordinate in the region, on a
\* subdivision line or an edge included, each of the ten iterations uses a
\* row and a col in 0..3 and the grid lookup does not fail.
C7_BoundaryClamping ==
    (calls = <<"encodeDigipin">> /\ input.kind = "coord" /\ InRegion(input))
        => /\ val.kind = "string"
           /\ ~loop.thrown
           /\ Len(loop.rows) = Levels /\ Len(loop.cols) = Levels
           /\ \A i \in 1..Levels : loop.rows[i] \in 0..3 /\ loop.cols[i] \in 0..3

\* The south-east corner: the unclamped row and col of the first iteration are 4.
C7_Witness ==
    /\ calls = <<"encodeDigipin">>
    /\ input = Coord(MIN_LAT, MAX_LON)
    /\ loop.rows[1] = 3 /\ loop.cols[1] = 3
    /\ RowOf(MAX_LAT, input.lat, Quarter(FSub(MAX_LAT, MIN_LAT))) = 4

\* C10: idempotent formatting. formatDigipin(formatDigipin(x)) = formatDigipin(x).
C10_IdempotentFormatting ==
    (calls = <<"formatDigipin", "formatDigipin">>) => val = arg

C10_Witness ==
    /\ calls = <<"formatDigipin", "formatDigipin">>
    /\ arg # input
    /\ val = arg

(***************************************************************************)
(* THE CLAIMS about two coordinates                                        *)
(***************************************************************************)
\* minLat < lat < maxLat and minLon < lon < maxLon
StrictlyInside(b, c) ==
    /\ NumLt(b.minLat, c.lat) /\ NumLt(c.lat, b.maxLat)
    /\ NumLt(b.minLon, c.lon) /\ NumLt(c.lon, b.maxLon)

\* p and q are both encoded.
BothEncoded == site # Null /\ at.p # Null /\ at.q # Null

\* p and q are both encoded to codes, and both codes are decoded.
BothDecoded ==
    /\ BothEncoded
    /\ at.p.decoded # Null /\ at.q.decoded # Null

\* C8 (as claimed, for the coordinates strictly inside the cell, which the
\* closed bounds of the claim include): same-cell codes. For every valid
\* code c and every two coordinates p and q within decodeDigipin(c).bounds,
\* encodeDigipin(p) = encodeDigipin(q).
C8_SameCellCodes ==
    (/\ BothEncoded
     /\ cell.kind = "cell"
     /\ StrictlyInside(cell.bounds, at.p)
     /\ StrictlyInside(cell.bounds, at.q))
        => at.p.digipin = at.q.digipin

\* Two different cells with a common edge: north/south neighbours over the
\* same longitudes, or east/west neighbours over the same latitudes.
ShareAnEdge(a, b) ==
    \/ /\ a.minLon = b.minLon /\ a.maxLon = b.maxLon
       /\ (a.minLat = b.maxLat \/ a.maxLat = b.minLat)
    \/ /\ a.minLat = b.minLat /\ a.maxLat = b.maxLat
       /\ (a.minLon = b.maxLon \/ a.maxLon = b.minLon)

\* The tenth symbol of a hyphenated code.
LastSymbol(digipin) == digipin.s[Len(digipin.s)]

\* C9: adjacent-cell codes. For every two coordinates in the region whose
\* codes address two full-depth cells that share an edge, the two codes
\* differ in their last symbol.
C9_AdjacentCellCodes ==
    (BothDecoded /\ ShareAnEdge(at.p.decoded.bounds, at.q.decoded.bounds))
        => LastSymbol(at.p.digipin) # LastSymbol(at.q.digipin)

\* North/south neighbours on the two sides of the 11.5 line, which lie in
\* different level-1 cells.
C9_Witness ==
    /\ BothDecoded
    /\ at.p.decoded.bounds.minLat = at.q.decoded.bounds.maxLat
    /\ at.p.decoded.bounds.minLon = at.q.decoded.bounds.minLon
    /\ at.p.digipin.s[1] # at.q.digipin.s[1]
    /\ LastSymbol(at.p.digipin) # LastSymbol(at.q.digipin)

(***************************************************************************)
(* MORE CLAIMS about single calls                                          *)
(***************************************************************************)
\* The ten characters n grouped 3-3-4 with a hyphen after the 3rd and the
\* 6th.
Grouped(n) ==
    [i \in 1..12 |-> IF i \in {4, 8} THEN "-"
                     ELSE IF i < 4 THEN n[i] ELSE IF i < 8 THEN n[i - 1] ELSE n[i - 2]]

\* C11: formatDigipin passthrough. When the input with its hyphens removed
\* and upper-cased does not have length 10, formatDigipin returns the input
\* unchanged; otherwise it returns the ten upper-cased characters grouped
\* 3-3-4, whether or not they belong to the alphabet.
C11_FormatPassthrough ==
    (calls = <<"formatDigipin">>)
        => LET n == ToUpperCase(RemoveHyphens(input.s))
           IN  val = IF Len(n) # 10 THEN input ELSE Str(Grouped(n))

\* A string of ten characters, one of them outside the alphabet, is grouped.
C11_Witness ==
    /\ calls = <<"formatDigipin">>
    /\ Len(input.s) = 10
    /\ Len(val.s) = 12
    /\ \E i \in 1..10 : input.s[i] \notin Alphabet /\ val.s[IF i <= 3 THEN i ELSE IF i <= 6 THEN i + 1 ELSE i + 2] = input.s[i]

\* C13: symbol grid bijection. DIGIPIN_GRID holds 16 pairwise distinct
\* symbols, exactly the alphabet; CHAR_TO_POS has exactly those keys and is
\* the inverse of the grid; this is so before and after every call.
C13_GridBijection ==
    /\ Len(calls) <= MaxCalls
    /\ Len(DIGIPIN_GRID) = 4 /\ \A r \in 1..4 : Len(DIGIPIN_GRID[r]) = 4
    /\ Cardinality({DIGIPIN_GRID[r + 1][c + 1] : r \in 0..3, c \in 0..3}) = 16
    /\ {DIGIPIN_GRID[r + 1][c + 1] : r \in 0..3, c \in 0..3} = Alphabet
    /\ DOMAIN CHAR_TO_POS = Alphabet
    /\ \A r, c \in 0..3 : CHAR_TO_POS[DIGIPIN_GRID[r + 1][c + 1]] = <<r, c>>

\* After a decode and an encode, both of which read the tables.
C13_Witness ==
    /\ calls = <<"decodeDigipin", "encodeDigipin">>
    /\ val.kind = "string"
    /\ \A i \in {1, 2, 3, 5, 6, 7, 9, 10, 11, 12} :
          LET rc == CHAR_TO_POS[val.s[i]]
          IN  DIGIPIN_GRID[rc[1] + 1][rc[2] + 1] = val.s[i]

\* The hyphenated code of ten symbols ch.
Constant(ch) == Str(<<ch, ch, ch, "-", ch, ch, ch, "-", ch, ch, ch, ch>>)

\* C19: corner vectors. encodeDigipin(38.5, 63.5) = 'FFF-FFF-FFFF',
\* encodeDigipin(38.5, 99.5) = '888-888-8888', encodeDigipin(2.5, 63.5) =
\* 'LLL-LLL-LLLL' and encodeDigipin(2.5, 99.5) = 'TTT-TTT-TTTT'.
C19_CornerVectors ==
    (calls = <<"encodeDigipin">> /\ input.kind = "coord")
        => /\ input = Coord(Dyadic(77, 1), Dyadic(127, 1)) => val = Constant("F")
           /\ input = Coord(Dyadic(77, 1), Dyadic(199, 1)) => val = Constant("8")
           /\ input = Coord(Dyadic(5, 1), Dyadic(127, 1)) => val = Constant("L")
           /\ input = Coord(Dyadic(5, 1), Dyadic(199, 1)) => val = Constant("T")

\* The north-east corner: row 0 and the column clamped to 3 at every level.
C19_Witness ==
    /\ calls = <<"encodeDigipin">>
    /\ input = Coord(Dyadic(77, 1), Dyadic(199, 1))
    /\ val = Constant("8")
    /\ loop.rows[Levels] = 0 /\ loop.cols[Levels] = 3

(***************************************************************************)
(* STEP BY STEP.  One coordinate is range-checked with isWithinBounds and  *)
(* encoded one iteration at a time; the code returned is decoded one       *)
(* iteration at a time.  trail records the working rectangle before the    *)
(* loop and after each iteration.                                          *)
(***************************************************************************)
\* Longitudes: both edges of the region, the 81.5 line with the doubles next
\* to it, a cell centre, and NaN.  Latitudes: those of the single calls,
\* and NaN.
LoopCoords ==
    {Coord(lat, lon) :
        lat \in LatSamples \cup {NaN},
        lon \in Nearby(LonAt(CellsPerAxis)) \cup
                {LonAt(0), LonAt(2 * CellsPerAxis), LonAt(CellsPerAxis + 1), NaN}}

LoopInit ==
    /\ point \in LoopCoords
    /\ within = Null /\ enc = Null /\ dec = Null
    /\ calls = <<>>
    /\ input = Null /\ arg = Null /\ val = Null /\ loop = Null
    /\ site = Null /\ cell = Null /\ at = Null
    /\ pins = Null
    /\ currentLocation = Null /\ marker = Null /\ gridRect = Null
    /\ url = Null /\ pending = Null /\ running = Null

\* isWithinBounds(lat, lon)
CheckBounds ==
    /\ within = Null
    /\ within' = Bool(isWithinBounds(point.lat, point.lon))
    /\ calls' = Append(calls, "isWithinBounds")
    /\ UNCHANGED <<appVars, codeVars, input, arg, val, loop, pairVars, point, enc, dec>>

\* encodeDigipin up to its loop: the bounds check and the initial rectangle.
EncodeEnter ==
    /\ enc = Null
    /\ enc' = IF OutOfRange(point.lat, point.lon)
              THEN [pc |-> "returned", s |-> EncodeStart, trail |-> <<>>, result |-> Null]
              ELSE [pc |-> "loop", s |-> EncodeStart, trail |-> <<Bounds(EncodeStart)>>,
                    result |-> Null]
    /\ calls' = Append(calls, "encodeDigipin")
    /\ UNCHANGED <<appVars, codeVars, input, arg, val, loop, pairVars, point, within, dec>>

\* One iteration of the loop of encodeDigipin.
EncodeStep ==
    /\ enc # Null /\ enc.pc = "loop" /\ Len(enc.s.rows) < Levels
    /\ \E n \in {EncodeIter(enc.s, point.lat, point.lon)} :
          enc' = IF n.thrown
                 THEN [enc EXCEPT !.pc = "thrown", !.s = n, !.result = TypeError]
                 ELSE [enc EXCEPT !.s = n, !.trail = Append(@, Bounds(n))]
    /\ UNCHANGED <<appVars, codeVars, input, calls, arg, val, loop, pairVars, point, within, dec>>

\* The return of encodeDigipin after its loop.
EncodeReturn ==
    /\ enc # Null /\ enc.pc = "loop" /\ Len(enc.s.rows) = Levels
    /\ enc' = [enc EXCEPT !.pc = "returned", !.result = Str(Hyphenate(enc.s.digipin))]
    /\ UNCHANGED <<appVars, codeVars, input, calls, arg, val, loop, pairVars, point, within, dec>>

\* decodeDigipin, on the code encodeDigipin returned, up to its loop.
DecodeEnter ==
    /\ enc # Null /\ enc.pc = "returned" /\ enc.result.kind = "string"
    /\ dec = Null
    /\ \E pin \in {Normalize(enc.result.s)} :
          dec' = IF ~WellFormed(pin)
                 THEN [pc |-> "returned", pin |-> pin, s |-> DecodeStart, trail |-> <<>>,
                       result |-> Null]
                 ELSE [pc |-> "loop", pin |-> pin, s |-> DecodeStart,
                       trail |-> <<Bounds(DecodeStart)>>, result |-> Null]
    /\ calls' = Append(calls, "decodeDigipin")
    /\ UNCHANGED <<appVars, codeVars, input, arg, val, loop, pairVars, point, within, enc>>

\* One iteration of the loop of decodeDigipin.
DecodeStep ==
    /\ dec # Null /\ dec.pc = "loop" /\ dec.s.level < Levels
    /\ \E n \in {DecodeIter(dec.s, dec.pin)} :
          dec' = [dec EXCEPT !.s = n, !.trail = Append(@, Bounds(n))]
    /\ UNCHANGED <<appVars, codeVars, input, calls, arg, val, loop, pairVars, point, within, enc>>

\* The return of decodeDigipin after its loop.
DecodeReturn ==
    /\ dec # Null /\ dec.pc = "loop" /\ dec.s.level = Levels
    /\ dec' = [dec EXCEPT !.pc = "returned",
                          !.result = [kind |-> "cell",
                                      lat |-> Halve(FAdd(dec.s.minLat, dec.s.maxLat)),
                                      lon |-> Halve(FAdd(dec.s.minLon, dec.s.maxLon)),
                                      bounds |-> Bounds(dec.s)]]
    /\ UNCHANGED <<appVars, codeVars, input, calls, arg, val, loop, pairVars, point, within, enc>>

LoopNext ==
    \/ CheckBounds
    \/ EncodeEnter \/ EncodeStep \/ EncodeReturn
    \/ DecodeEnter \/ DecodeStep \/ DecodeReturn

SpecLoop == LoopInit /\ [][LoopNext]_vars

(***************************************************************************)
(* THE CLAIMS about the steps                                              *)
(***************************************************************************)
\* encodeDigipin has returned or raised.
EncodeDone == enc # Null /\ enc.pc \in {"returned", "thrown"}

\* C14 (as claimed): agreement of encode with the range check. For every
\* pair of numeric arguments, NaN included, encodeDigipin returns a code
\* exactly when isWithinBounds is true, and returns null without raising
\* exactly when it is false; isWithinBounds is true exactly on the closed
\* rectangle 2.5..38.5 by 63.5..99.5.
C14_EncodeAgreesWithRangeCheck ==
    (within # Null /\ EncodeDone)
        => /\ within = Bool(InRegion(point))
           /\ within = Bool(TRUE) => (enc.pc = "returned" /\ enc.result.kind = "string")
           /\ within = Bool(FALSE) => (enc.pc = "returned" /\ enc.result = Null)

\* 36 / 4^k
SpanAt(k) == IF k = 0 THEN Dyadic(36, 0) ELSE Dyadic(9, 2 * k - 2)

\* Rectangle a lies inside rectangle b.
InsideOf(a, b) ==
    /\ NumLe(b.minLat, a.minLat) /\ NumLe(a.maxLat, b.maxLat)
    /\ NumLe(b.minLon, a.minLon) /\ NumLe(a.maxLon, b.maxLon)

TheRegion ==
    [minLat |-> Dyadic(5, 1), maxLat |-> Dyadic(77, 1),
     minLon |-> Dyadic(127, 1), maxLon |-> Dyadic(199, 1)]

\* The rectangles of a trail narrow: after k iterations both spans are
\* 36 / 4^k, the rectangle lies inside the one before and inside the region,
\* and it is not empty.
Narrows(trail) ==
    \A k \in 0..(Len(trail) - 1) :
        LET r == trail[k + 1]
        IN  /\ NumSub(r.maxLat, r.minLat) = SpanAt(k)
            /\ NumSub(r.maxLon, r.minLon) = SpanAt(k)
            /\ k > 0 => InsideOf(r, trail[k])
            /\ InsideOf(r, TheRegion)
            /\ NumLt(r.minLat, r.maxLat) /\ NumLt(r.minLon, r.maxLon)

\* The coordinate lies within every rectangle of the trail (closed bounds).
Follows(trail, c) == \A k \in 1..Len(trail) : Contains(trail[k], c.lat, c.lon)

\* C15 (as claimed): narrowing invariant. For a coordinate in the region,
\* in encodeDigipin and in decodeDigipin the working rectangle after k
\* iterations has both spans equal to 36 / 4^k, lies inside the rectangle
\* of iteration k - 1 and inside the region, and is not empty; in
\* encodeDigipin the coordinate lies inside it after every iteration.
C15_NarrowingInvariant ==
    (InRegion(point) /\ enc # Null)
        => /\ Narrows(enc.trail)
           /\ dec # Null => Narrows(dec.trail)
           /\ Follows(enc.trail, point)

\* C16: encode and decode narrow identically. For every coordinate in the
\* region and every level k, the rectangle encodeDigipin holds after k
\* iterations is the rectangle decodeDigipin holds after the first k
\* symbols of the code; the bounds decodeDigipin returns are the final
\* rectangle of encodeDigipin and the centre it returns is their midpoint.
C16_SameNarrowing ==
    (InRegion(point) /\ enc # Null /\ dec # Null)
        => /\ \A k \in 1..Len(dec.trail) : dec.trail[k] = enc.trail[k]
           /\ dec.pc = "returned"
                => /\ dec.result.kind = "cell"
                   /\ dec.result.bounds = enc.trail[Levels + 1]
                   /\ NumAdd(dec.result.lat, dec.result.lat)
                        = NumAdd(enc.s.minLat, enc.s.maxLat)
                   /\ NumAdd(dec.result.lon, dec.result.lon)
                        = NumAdd(enc.s.minLon, enc.s.maxLon)

\* A decode that has returned, for a coordinate off every subdivision line.
C16_Witness ==
    /\ InRegion(point)
    /\ dec # Null /\ dec.pc = "returned"
    /\ Len(dec.trail) = Levels + 1
    /\ dec.trail[Levels + 1] = enc.trail[Levels + 1]
    /\ StrictlyInside(dec.result.bounds, point)

\* The cell a coordinate belongs to: minLat < lat <= maxLat and
\* minLon <= lon < maxLon, with lat = 2.5 in the southernmost row and
\* lon = 99.5 in the easternmost column.
BelongsTo(c, b) ==
    /\ NumLt(b.minLat, c.lat) \/ (c.lat = Dyadic(5, 1) /\ b.minLat = Dyadic(5, 1))
    /\ NumLe(c.lat, b.maxLat)
    /\ NumLe(b.minLon, c.lon)
    /\ NumLt(c.lon, b.maxLon) \/ (c.lon = Dyadic(199, 1) /\ b.maxLon = Dyadic(199, 1))

\* C17 (as claimed): cell membership and tie-breaking. For every coordinate
\* in the region, encodeDigipin(lat, lon) is the code of the cell with
\* minLat < lat <= maxLat and minLon <= lon < maxLon (lat = 2.5 in the
\* southernmost row, lon = 99.5 in the easternmost column): a coordinate on
\* an interior horizontal line belongs to the cell south of it, one on an
\* interior vertical line to the cell east of it.
C17_CellMembership ==
    (InRegion(point) /\ dec # Null /\ dec.pc = "returned")
        => (dec.result.kind = "cell" /\ BelongsTo(point, dec.result.bounds))

(***************************************************************************)
(* TWO STRINGS.  Two strings s and t are each given to decodeDigipin, as   *)
(* handleSearch does with what the user typed.                             *)
(***************************************************************************)
\* Codes of ten symbols: the default code, the cell south of it (same
\* parent), a cell of the same parent that does not touch it, the cell at
\* the same place of another level-1 cell, and two cells that touch across
\* the 11.5 line (no symbol in common).
PinCodes ==
    {RemoveHyphens(DEFAULT_DIGIPIN),
     Replaced(RemoveHyphens(DEFAULT_DIGIPIN), 10, "T"),
     Replaced(RemoveHyphens(DEFAULT_DIGIPIN), 10, "F"),
     Replaced(RemoveHyphens(DEFAULT_DIGIPIN), 1, "F"),
     CodeOf("5", "L", 1),
     CodeOf("P", "F", 1)}

\* Spellings of one code: bare, hyphenated 3-3-4, lower case, hyphenated in
\* lower case, a hyphen in another place; and two strings that are not
\* codes.
PinSpellings(c) ==
    {c, Hyphenate(c), ToLower(c), ToLower(Hyphenate(c)),
     Slice(c, 0, 5) \o <<"-">> \o Slice(c, 5, 10),
     Slice(c, 0, 9), Replaced(c, 1, "A")}

PinStrings == UNION {PinSpellings(c) : c \in PinCodes}

Pending == [kind |-> "pending"]

CodesInit ==
    /\ pins \in [s : [str : PinStrings, decoded : {Pending}],
                 t : [str : PinStrings, decoded : {Pending}]]
    /\ calls = <<>>
    /\ input = Null /\ arg = Null /\ val = Null /\ loop = Null
    /\ site = Null /\ cell = Null /\ at = Null
    /\ point = Null /\ within = Null /\ enc = Null /\ dec = Null
    /\ currentLocation = Null /\ marker = Null /\ gridRect = Null
    /\ url = Null /\ pending = Null /\ running = Null

\* decodeDigipin(digipin) for the string s or the string t.
DecodePin ==
    /\ pins # Null
    /\ \E k \in {"s", "t"} :
        /\ pins[k].decoded = Pending
        /\ pins' = [pins EXCEPT ![k].decoded = decodeDigipin(pins[k].str)]
    /\ calls' = Append(calls, "decodeDigipin")
    /\ UNCHANGED <<appVars, input, arg, val, loop, pairVars, loopVars>>

CodesNext == DecodePin

SpecCodes == CodesInit /\ [][CodesNext]_vars

(***************************************************************************)
(* THE CLAIMS about two strings                                            *)
(***************************************************************************)
\* Hyphens removed, upper-cased.
NormalForm(s) == ToUpperCase(RemoveHyphens(s))

\* decodeDigipin has returned for s and for t.
BothPinsDecoded ==
    pins # Null /\ pins.s.decoded # Pending /\ pins.t.decoded # Pending

\* C12: normalization insensitivity of decode. For every two strings whose
\* normalized forms (hyphens removed, upper-cased) are equal, the two results
\* of decodeDigipin are both null or have the same lat, lon and bounds.
C12_NormalizationInsensitivity ==
    (BothPinsDecoded /\ NormalForm(pins.s.str) = NormalForm(pins.t.str))
        => \/ pins.s.decoded = Null /\ pins.t.decoded = Null
           \/ /\ pins.s.decoded # Null /\ pins.t.decoded # Null
              /\ pins.s.decoded.lat = pins.t.decoded.lat
              /\ pins.s.decoded.lon = pins.t.decoded.lon
              /\ pins.s.decoded.bounds = pins.t.decoded.bounds

\* A hyphenated spelling and a bare lower-case spelling of the default code
\* are both decoded to a cell.
C12_Witness ==
    /\ BothPinsDecoded
    /\ pins.s.str = DEFAULT_DIGIPIN
    /\ pins.t.str = ToLower(RemoveHyphens(DEFAULT_DIGIPIN))
    /\ pins.s.decoded # Null
    /\ pins.t.decoded # Null

\* The interiors of rectangles a and b have no point in common.
InteriorsApart(a, b) ==
    \/ NumLe(a.maxLat, b.minLat) \/ NumLe(b.maxLat, a.minLat)
    \/ NumLe(a.maxLon, b.minLon) \/ NumLe(b.maxLon, a.minLon)

\* The sixteen squares of side h that tile rectangle b, row by row from its
\* north edge.
QuartersOf(b, h) ==
    {[minLat |-> NumSub(b.maxLat, MulInt(r + 1, h)),
      maxLat |-> NumSub(b.maxLat, MulInt(r, h)),
      minLon |-> NumAdd(b.minLon, MulInt(c, h)),
      maxLon |-> NumAdd(b.minLon, MulInt(c + 1, h))] : r \in 0..3, c \in 0..3}

\* The rectangles one iteration of decodeDigipin makes of rectangle s, one
\* for each symbol.
ChildrenOf(s, pin) ==
    {Bounds(DecodeIter(s, Replaced(pin, s.level + 1, ch))) : ch \in Alphabet}

\* At every level on the way to the cell of code pin, the sixteen symbols
\* give the sixteen squares that tile the rectangle of the level before; the
\* rectangle of level 0 is the region.
TiledDownTo(pin) ==
    /\ Bounds(DecodeStart) = TheRegion
    /\ \A k \in 0..(Levels - 1) :
          LET s == DecodeLoop(k, DecodeStart, pin)
          IN  /\ NumSub(s.maxLat, s.minLat) = SpanAt(k)
              /\ NumSub(s.maxLon, s.minLon) = SpanAt(k)
              /\ ChildrenOf(s, pin) = QuartersOf(s, SpanAt(k + 1))

\* C18: decode is injective on normalized codes. Two valid codes whose
\* normalized sequences differ decode to different bounds whose interiors do
\* not overlap, two valid codes decode to the same bounds only if their
\* normalized sequences are equal, and the cells cover the region: at every
\* level the sixteen symbols tile the rectangle they subdivide.
C18_DecodeInjective ==
    (BothPinsDecoded /\ pins.s.decoded # Null /\ pins.t.decoded # Null)
        => /\ NormalForm(pins.s.str) # NormalForm(pins.t.str)
                => /\ pins.s.decoded.bounds # pins.t.decoded.bounds
                   /\ InteriorsApart(pins.s.decoded.bounds, pins.t.decoded.bounds)
           /\ pins.s.decoded.bounds = pins.t.decoded.bounds
                => NormalForm(pins.s.str) = NormalForm(pins.t.str)
           /\ TiledDownTo(NormalForm(pins.s.str))

\* Two codes that differ in their last symbol only are decoded to two cells
\* that share an edge.
C18_Witness ==
    /\ BothPinsDecoded
    /\ pins.s.str = RemoveHyphens(DEFAULT_DIGIPIN)
    /\ pins.t.str = Hyphenate(Replaced(RemoveHyphens(DEFAULT_DIGIPIN), 10, "T"))
    /\ pins.s.decoded # Null /\ pins.t.decoded # Null
    /\ ShareAnEdge(pins.s.decoded.bounds, pins.t.decoded.bounds)

(***************************************************************************)
(* THE APPLICATION.  The page keeps currentLocation, marker and gridRect   *)
(* and the query parameters of its URL; its handlers run one at a time,    *)
(* and what they defer (setTimeout, fetch, getCurrentPosition) waits in    *)
(* pending until its callback runs (requests of one kind that wait         *)
(* together are not told apart).  A handler that calls decodeDigipin or    *)
(* setLocation takes several steps, one for each call of the codec, and no *)
(* other handler starts before it has returned.  The handlers are those of *)
(* src/digipin.js together with hideResultPanel of src/unnamed/part_000,   *)
(* whose other handlers are the same.  The view of the map, the toasts     *)
(* and the side bar are left out: no handler reads them back.              *)
(***************************************************************************)
\* A number held where null can be held too.
Num(x) == [kind |-> "number", x |-> x]

\* { lat: null, lon: null, digipin: null }
NoLocation == [lat |-> Null, lon |-> Null, digipin |-> Null]

\* L.marker([lat, lon]) after addTo(map), or after setLatLng([lat, lon]).
Marker(lat, lon) == [kind |-> "marker", lat |-> lat, lon |-> lon]

\* L.rectangle([[minLat, minLon], [maxLat, maxLon]]) after addTo(map).
Rectangle(bounds) == [kind |-> "rectangle", bounds |-> bounds]

\* The query parameters pin, lat, lng or lon, and q: each null or its text
\* (a Num stands for a text by what parseFloat makes of it).
Params(pin, lat, lon, q) == [pin |-> pin, lat |-> lat, lon |-> lon, q |-> q]

\* parseFloat(params.get(...)): NaN when the parameter is missing.
ParsedFloat(p) == IF p = Null THEN NaN ELSE p.x

\* Coordinates a click, a position fix or a geocoder can give: the first
\* double north of the 11.5 line, and a point outside the region.
AppCoords ==
    {Coord(NumAdd(LatAt(CellsPerAxis \div 2), Ulp(LatAt(CellsPerAxis \div 2))),
           LonAt(CellsPerAxis + 1)),
     Coord(Zero, Zero)}

\* What parseFloat makes of the lat and lon of a geocoder's answer: a
\* coordinate, or NaN for a field that is missing or not a number.
GeocodeCoords ==
    AppCoords \cup {Coord(NaN, LonAt(822823)), Coord(LatAt(607907), NaN)}

\* What is typed in the search box: a code in lower case, an address,
\* nothing.
Queries == {ToLower(CodeOf("5", "L", 1)), <<"A", "g", "r", "a">>, <<>>}

\* The URL the page is opened with.
InitialUrls ==
    {Params(Null, Null, Null, Null),
     Params(Str(DEFAULT_DIGIPIN), Null, Null, Null),
     Params(Str(<<"A", "g", "r", "a">>), Null, Null, Null),
     Params(Null, Num(LatAt(607907)), Num(LonAt(822823)), Null),
     Params(Null, Null, Null, Str(<<"A", "g", "r", "a">>))}

Task(kind) == [kind |-> kind]

AppInit ==
    /\ currentLocation = NoLocation
    /\ marker = Null
    /\ gridRect = Null
    /\ url \in InitialUrls
    /\ pending = {Task("DOMContentLoaded")}
    /\ running = Null
    /\ calls = <<>>
    /\ input = Null /\ arg = Null /\ val = Null /\ loop = Null
    /\ site = Null /\ cell = Null /\ at = Null
    /\ point = Null /\ within = Null /\ enc = Null /\ dec = Null
    /\ pins = Null

notAppVars == <<codeVars, input, calls, arg, val, loop, pairVars, loopVars>>

\* No handler is under way: one can start.
Idle == IF running = Null THEN TRUE ELSE running.pc = "returned"

\* A handler returns without a call of setLocation.
Return ==
    /\ running' = Null
    /\ UNCHANGED <<currentLocation, marker, gridRect, url>>

\* A handler calls setLocation(lat, lon, zoom, updateUrl) as its last act.
Call(lat, lon, updateUrl) ==
    /\ running' = [pc |-> "setLocation", lat |-> lat, lon |-> lon,
                   updateUrl |-> updateUrl]
    /\ UNCHANGED <<currentLocation, marker, gridRect, url>>

\* A handler calls decodeDigipin(digipin) and goes on with the result as
\* the name then says.
CallDecode(digipin, then) ==
    /\ running' = [pc |-> "decodeDigipin", digipin |-> digipin, then |-> then]
    /\ UNCHANGED <<currentLocation, marker, gridRect, url>>

\* The listeners are bound: the DOMContentLoaded handler has run.
Loaded == Task("DOMContentLoaded") \notin pending

\* document.addEventListener('DOMContentLoaded', ...) up to the
\* decodeDigipin(pin) of initUrlHandler(), which is called when the pin
\* parameter is a valid code.
DOMContentLoaded ==
    /\ Idle
    /\ Task("DOMContentLoaded") \in pending
    /\ url.pin # Null
    /\ isValidDigipin(url.pin.s)
    /\ pending' = pending \ {Task("DOMContentLoaded")}
    /\ CallDecode(url.pin.s, "initUrlHandler")
    /\ UNCHANGED notAppVars

\* The same handler when decodeDigipin(pin) is not called: initUrlHandler()
\* goes on to the lat and lng (or lon) parameters and to the q parameter;
\* when it returns false, setTimeout(initDefaultLocation, 1000).
DOMContentLoadedWithoutPin ==
    /\ Idle
    /\ Task("DOMContentLoaded") \in pending
    /\ ~(url.pin # Null /\ isValidDigipin(url.pin.s))
    /\ LET lat == ParsedFloat(url.lat)
           lon == ParsedFloat(url.lon)
       IN  IF ~IsNaN(lat) /\ ~IsNaN(lon) /\ isWithinBounds(lat, lon)
           THEN pending' = {[kind |-> "setLocation", lat |-> lat, lon |-> lon]}
           ELSE IF url.q # Null
           THEN pending' = {[kind |-> "handleSearch", query |-> url.q.s]}
           ELSE pending' = {Task("initDefaultLocation")}
    /\ Return
    /\ UNCHANGED notAppVars

\* setTimeout(() => setLocation(lat, lon, 18, false), 500)
SetLocationLater ==
    /\ Idle
    /\ \E t \in pending :
        /\ t.kind = "setLocation"
        /\ pending' = pending \ {t}
        /\ Call(t.lat, t.lon, FALSE)
    /\ UNCHANGED notAppVars

\* showDefaultLocation() up to its decodeDigipin(DEFAULT_DIGIPIN)
showDefaultLocation == CallDecode(DEFAULT_DIGIPIN, "showDefaultLocation")

\* initDefaultLocation(), one second after the page is loaded: nothing when
\* the URL has a pin, lat or q parameter; otherwise a position is asked
\* for, or the default location shown when there is no navigator.geolocation.
InitDefaultLocation ==
    /\ Idle
    /\ Task("initDefaultLocation") \in pending
    /\ IF url.pin # Null \/ url.lat # Null \/ url.q # Null
       THEN /\ pending' = pending \ {Task("initDefaultLocation")}
            /\ Return
       ELSE \/ /\ pending' = (pending \ {Task("initDefaultLocation")})
                                \cup {[kind |-> "position", from |-> "initDefaultLocation"]}
               /\ Return
            \/ /\ pending' = pending \ {Task("initDefaultLocation")}
               /\ showDefaultLocation
    /\ UNCHANGED notAppVars

\* The callbacks initDefaultLocation gives to getCurrentPosition: a position
\* (shown when within bounds, the default location otherwise) or an error.
InitialPosition ==
    /\ Idle
    /\ \E t \in pending :
        /\ t.kind = "position" /\ t.from = "initDefaultLocation"
        /\ pending' = pending \ {t}
    /\ \/ \E c \in AppCoords :
             IF isWithinBounds(c.lat, c.lon)
             THEN Call(c.lat, c.lon, TRUE)
             ELSE showDefaultLocation
       \/ showDefaultLocation
    /\ UNCHANGED notAppVars

\* handleMapClick(e)
HandleMapClick ==
    /\ Idle
    /\ Loaded
    /\ \E c \in AppCoords :
          IF ~isWithinBounds(c.lat, c.lon)
          THEN Return
          ELSE Call(c.lat, c.lon, TRUE)
    /\ UNCHANGED pending
    /\ UNCHANGED notAppVars

\* handleSearch() up to its decodeDigipin(query) or its fetch, for the query
\* in the search box (taken as trimmed); rest is what is pending besides
\* this call.
handleSearch(query, rest) ==
    IF query = <<>>
    THEN pending' = rest /\ Return
    ELSE IF isValidDigipin(query)
    THEN pending' = rest /\ CallDecode(query, "handleSearch")
    ELSE pending' = rest \cup {Task("geocode")} /\ Return

\* The search button or the Enter key.
HandleSearch ==
    /\ Idle
    /\ Loaded
    /\ \E query \in Queries : handleSearch(query, pending)
    /\ UNCHANGED notAppVars

\* setTimeout(handleSearch, 500) for the q parameter of the URL.
HandleSearchLater ==
    /\ Idle
    /\ \E t \in pending :
        /\ t.kind = "handleSearch"
        /\ handleSearch(t.query, pending \ {t})
    /\ UNCHANGED notAppVars

\* handleSearch() after its await: the request fails, or the answer is empty,
\* or setLocation(parseFloat(lat), parseFloat(lon), 16) is called for its
\* first entry; an exception of setLocation is caught.
GeocodeAnswer ==
    /\ Idle
    /\ Task("geocode") \in pending
    /\ pending' = pending \ {Task("geocode")}
    /\ \/ Return
       \/ \E c \in GeocodeCoords : Call(c.lat, c.lon, TRUE)
    /\ UNCHANGED notAppVars

\* locateUser(): nothing without navigator.geolocation, else a position is
\* asked for.
LocateUser ==
    /\ Idle
    /\ Loaded
    /\ pending' \in {pending,
                     pending \cup {[kind |-> "position", from |-> "locateUser"]}}
    /\ Return
    /\ UNCHANGED notAppVars

\* The callbacks locateUser gives to getCurrentPosition: a position (shown
\* when within bounds) or an error.
UserPosition ==
    /\ Idle
    /\ \E t \in pending :
        /\ t.kind = "position" /\ t.from = "locateUser"
        /\ pending' = pending \ {t}
    /\ \/ \E c \in AppCoords :
             IF ~isWithinBounds(c.lat, c.lon)
             THEN Return
             ELSE Call(c.lat, c.lon, TRUE)
       \/ Return
    /\ UNCHANGED notAppVars

\* hideResultPanel() of src/unnamed/part_000
HideResultPanel ==
    /\ Idle
    /\ Loaded
    /\ marker' = Null
    /\ gridRect' = Null
    /\ currentLocation' = NoLocation
    /\ url' = Params(Null, Null, Null, Null)
    /\ running' = Null
    /\ UNCHANGED pending
    /\ UNCHANGED notAppVars

\* const decoded = decodeDigipin(...) in the handler under way, and what
\* the handler does with it: initUrlHandler sets a timer for setLocation
\* (or goes on as without a pin: no sampled URL has other parameters with a
\* pin, and initDefaultLocation will find the pin and do nothing);
\* handleSearch and showDefaultLocation call setLocation (handleSearch goes
\* on to its fetch when there is nothing decoded).
DecodeDigipin ==
    /\ running # Null
    /\ running.pc = "decodeDigipin"
    /\ \E decoded \in {decodeDigipin(running.digipin)} :
          IF running.then = "initUrlHandler"
          THEN /\ pending' = pending \cup
                     {IF decoded # Null
                      THEN [kind |-> "setLocation",
                            lat |-> decoded.lat, lon |-> decoded.lon]
                      ELSE Task("initDefaultLocation")}
               /\ Return
          ELSE IF decoded # Null
          THEN /\ UNCHANGED pending
               /\ Call(decoded.lat, decoded.lon, running.then = "handleSearch")
          ELSE /\ pending' = IF running.then = "handleSearch"
                             THEN pending \cup {Task("geocode")}
                             ELSE pending
               /\ Return
    /\ UNCHANGED notAppVars

\* setLocation(lat, lon, zoom, updateUrl) up to drawGridCell.  A falsy code
\* returns early and an exception of encodeDigipin leaves before the
\* assignment.  The marker is Leaflet's: given a NaN it either raises (the
\* rest of setLocation does not run) or takes it.
SetLocation ==
    /\ running # Null
    /\ running.pc = "setLocation"
    /\ \E digipin \in {encodeDigipin(running.lat, running.lon)} :
          IF digipin.kind # "string"
          THEN /\ UNCHANGED <<currentLocation, marker>>
               /\ running' = [pc |-> "returned", lat |-> running.lat,
                              lon |-> running.lon, changed |-> FALSE]
          ELSE /\ currentLocation' = [lat |-> Num(running.lat), lon |-> Num(running.lon),
                                      digipin |-> digipin]
               /\ \E raised \in (IF IsNaN(running.lon) THEN BOOLEAN ELSE {FALSE}) :
                     IF raised
                     THEN /\ UNCHANGED marker
                          /\ running' = [pc |-> "returned", lat |-> running.lat,
                                         lon |-> running.lon,
                                         changed |-> currentLocation' # currentLocation]
                     ELSE /\ marker' = Marker(running.lat, running.lon)
                          /\ running' =
                                [pc |-> "drawGridCell", lat |-> running.lat,
                                 lon |-> running.lon, updateUrl |-> running.updateUrl,
                                 digipin |-> digipin,
                                 changed |-> <<currentLocation', marker'>>
                                                # <<currentLocation, marker>>]
    /\ UNCHANGED <<gridRect, url, pending>>
    /\ UNCHANGED notAppVars

\* setLocation from drawGridCell(lat, lon) to its end.  The
\* encodeDigipin(lat, lon) of drawGridCell gives again the code digipin that
\* setLocation has for the same lat and lon.
DrawGridCell ==
    /\ running # Null
    /\ running.pc = "drawGridCell"
    /\ \E decoded \in {decodeDigipin(running.digipin.s)} :
          gridRect' = IF decoded = Null THEN gridRect ELSE Rectangle(decoded.bounds)
    /\ url' = IF running.updateUrl
              THEN Params(running.digipin, Null, Null, Null)
              ELSE url
    /\ running' = [pc |-> "returned", lat |-> running.lat, lon |-> running.lon,
                   changed |-> running.changed \/ url' # url]
    /\ UNCHANGED <<currentLocation, marker, pending>>
    /\ UNCHANGED notAppVars

AppNext ==
    \/ DOMContentLoaded
    \/ DOMContentLoadedWithoutPin
    \/ SetLocationLater
    \/ InitDefaultLocation
    \/ InitialPosition
    \/ HandleMapClick
    \/ HandleSearch
    \/ HandleSearchLater
    \/ GeocodeAnswer
    \/ LocateUser
    \/ UserPosition
    \/ HideResultPanel
    \/ DecodeDigipin
    \/ SetLocation
    \/ DrawGridCell

SpecApp == AppInit /\ [][AppNext]_vars

(***************************************************************************)
(* THE CLAIM about the application                                         *)
(***************************************************************************)
\* C20 (as claimed): the application's location state stays consistent.
\* currentLocation is all null, or holds a coordinate inside the region and
\* the code encodeDigipin gives for it; and a call of setLocation with a
\* coordinate that cannot be encoded (one outside the region or not a
\* number) leaves currentLocation, the marker and the URL as they were.
C20_LocationStateConsistent ==
    /\ \/ currentLocation = NoLocation
       \/ /\ currentLocation.lat # Null /\ currentLocation.lon # Null
          /\ InRegion(Coord(currentLocation.lat.x, currentLocation.lon.x))
          /\ currentLocation.digipin =
                encodeDigipin(currentLocation.lat.x, currentLocation.lon.x)
    /\ (running # Null /\ running.pc = "returned" /\ ~InRegion(running))
          => ~running.changed
====
